---- MODULE Spec2Model ----
(***************************************************************************)
(* A model of pip's exception module, src/pip/_internal/exceptions.py:     *)
(*   - HashErrors, the aggregator of hash failures (append, __str__,       *)
(*     __bool__), and the five HashError classes it reports;               *)
(*   - HashError.body / HashMissing.body / HashMismatch.body and           *)
(*     HashMismatch._hash_comparison;                                      *)
(*   - DiagnosticPipError (__init__, __str__, _string_parts) with          *)
(*     _is_kebab_case and _prefix_with_indent.                             *)
(* Python str values are TLA+ strings; an Optional[T] is <<>> (None) or    *)
(* <<v>>; a dict is a sequence of [key, value] records in insertion order. *)
(***************************************************************************)
EXTENDS Naturals, Sequences, FiniteSets, TLC

VARIABLES
    objs,       \* the HashError instances constructed so far, by identity
    errors,     \* HashErrors.errors: a list of references into objs
    lastOp,     \* the operation that acted last on the report
    strRet,     \* what HashErrors.__str__ returned, when it acted last
    linesRet,   \* the local list `lines` of that __str__ call
    boolRet,    \* what HashErrors.__bool__ returned, when it acted last
    reorderedAt, \* history: len(errors) at the first __str__ call that changed
                \* the order of errors (0: no call has changed it)
    he,         \* a single HashError instance (<<>> before construction)
    heRet,      \* what the last method called on it returned (<<>> before)
    dArgs,      \* the keyword arguments of DiagnosticPipError.__init__
    dSelf,      \* the instance (<<>> before construction)
    dRaised,    \* TRUE iff __init__ raised AssertionError
    dStr        \* str(instance) (<<>> before the call)

vars == <<objs, errors, lastOp, strRet, linesRet, boolRet, reorderedAt,
          he, heRet, dArgs, dSelf, dRaised, dStr>>
aggVars == <<objs, errors, lastOp, strRet, linesRet, boolRet, reorderedAt>>
heVars == <<he, heRet>>
diagVars == <<dArgs, dSelf, dRaised, dStr>>

None == <<>>
Some(v) == <<v>>

(***************************************************************************)
(* Bounds.                                                                 *)
(***************************************************************************)
MaxErrors == 3      \* failures appended to one report
MaxDigests == 2     \* allowed digests per algorithm in a HashMismatch

(***************************************************************************)
(* The five HashError classes and their class attributes.                  *)
(***************************************************************************)
HashErrorClasses ==
    {"VcsHashUnsupported", "DirectoryUrlHashUnsupported", "HashMissing",
     "HashUnpinned", "HashMismatch"}

order(cls) ==
    CASE cls = "VcsHashUnsupported" -> 0
      [] cls = "DirectoryUrlHashUnsupported" -> 1
      [] cls = "HashMissing" -> 2
      [] cls = "HashUnpinned" -> 3
      [] cls = "HashMismatch" -> 4

head(cls) ==
    CASE cls = "VcsHashUnsupported" ->
            "Can't verify hashes for these requirements because we don't "
            \o "have a way to hash version control repositories:"
      [] cls = "DirectoryUrlHashUnsupported" ->
            "Can't verify hashes for these file:// requirements because they "
            \o "point to directories:"
      [] cls = "HashMissing" ->
            "Hashes are required in --require-hashes mode, but they are "
            \o "missing from some requirements. Here is a list of those "
            \o "requirements along with the hashes their downloaded archives "
            \o "actually had. Add lines like these to your requirements files to "
            \o "prevent tampering. (If you did not enable --require-hashes "
            \o "manually, note that it turns on automatically when any package "
            \o "has a hash.)"
      [] cls = "HashUnpinned" ->
            "In --require-hashes mode, all requirements must have their "
            \o "versions pinned with ==. These do not:"
      [] cls = "HashMismatch" ->
            "THESE PACKAGES DO NOT MATCH THE HASHES FROM THE REQUIREMENTS "
            \o "FILE. If you have updated the package versions, please update "
            \o "the hashes. Otherwise, examine the package contents carefully; "
            \o "someone may have tampered with them."

FAVORITE_HASH == "sha256"

(***************************************************************************)
(* str.join and str.replace("\n", "\n" + indent).                          *)
(***************************************************************************)
RECURSIVE Join(_, _)
Join(sep, lines) ==
    IF Len(lines) = 0 THEN ""
    ELSE IF Len(lines) = 1 THEN lines[1]
    ELSE lines[1] \o sep \o Join(sep, Tail(lines))

RECURSIVE ReplaceNewlines(_, _)
ReplaceNewlines(s, indent) ==
    IF Len(s) = 0 THEN ""
    ELSE (IF SubSeq(s, 1, 1) = "\n" THEN "\n" \o indent ELSE SubSeq(s, 1, 1))
         \o ReplaceNewlines(SubSeq(s, 2, Len(s)), indent)

RECURSIVE Spaces(_)
Spaces(n) == IF n = 0 THEN "" ELSE " " \o Spaces(n - 1)

(***************************************************************************)
(* Requirements (InstallRequirement, an external type): what the bodies    *)
(* read of one is str(req), req.original_link and req.req.                 *)
(***************************************************************************)
Requirements ==
    { [str |-> "pkga==1.0 from https://host/pkga.tar.gz (from -r reqs.txt (line 1))",
       original_link |-> Some("https://host/pkga.tar.gz"), req |-> Some("pkga==1.0")],
      [str |-> "pkgb (from -r reqs.txt (line 2))",
       original_link |-> None, req |-> Some("pkgb")],
      [str |-> "<InstallRequirement object: None editable=False>",
       original_link |-> None, req |-> None] }

\* The requirements the callers of a report attach in specification Spec.
ReportRequirements == { r \in Requirements : r.original_link # None }

(***************************************************************************)
(* HashError._requirement_name and the three body() methods.               *)
(***************************************************************************)
_requirement_name(e) ==
    IF e.req # None THEN e.req[1].str ELSE "unknown package"

hash_then_or(hash_name, i) == IF i = 1 THEN hash_name ELSE "    or"

RECURSIVE ComparisonLines(_, _)
ComparisonLines(allowed, gots) ==
    IF Len(allowed) = 0 THEN <<>>
    ELSE LET hash_name == allowed[1].key
             expecteds == allowed[1].value
         IN  [i \in 1..Len(expecteds) |->
                 "        Expected " \o hash_then_or(hash_name, i) \o " "
                 \o expecteds[i]]
             \o <<"             Got        " \o gots[hash_name] \o "\n">>
             \o ComparisonLines(Tail(allowed), gots)

_hash_comparison(e) == Join("\n", ComparisonLines(e.allowed, e.gots))

\* The fallback chain with req.req tried before req.original_link.
HashMissingPackage_ReqFirst(e) ==
    IF e.req = None THEN None
    ELSE IF e.req[1].req # None THEN e.req[1].req
    ELSE e.req[1].original_link

HashMissingPackage(e) ==
    IF e.req = None THEN None
    ELSE IF e.req[1].original_link # None THEN e.req[1].original_link
    ELSE e.req[1].req

body(e) ==
    CASE e.cls = "HashMissing" ->
            LET package == HashMissingPackage(e)
            IN  "    " \o (IF package # None THEN package[1] ELSE "unknown package")
                \o " --hash=" \o FAVORITE_HASH \o ":" \o e.gotten_hash
      [] e.cls = "HashMismatch" ->
            "    " \o _requirement_name(e) \o ":\n" \o _hash_comparison(e)
      [] OTHER -> "    " \o _requirement_name(e)

(***************************************************************************)
(* Constructors: HashError subclasses take no argument except HashMissing  *)
(* (gotten_hash) and HashMismatch (allowed, gots).  req starts as the      *)
(* class attribute None.                                                   *)
(***************************************************************************)
NewHashError(cls, gotten_hash, allowed, gots) ==
    [cls |-> cls, req |-> None, gotten_hash |-> gotten_hash,
     allowed |-> allowed, gots |-> gots]

NoDict == <<>>

Sha256Allowed ==
    << [key |-> "sha256", value |-> <<"aaaa", "1111">>] >>
Sha256Gots == [n \in {"sha256"} |-> "bbbb"]

\* The failures the callers of a report construct.
ReportInputs ==
    { NewHashError(cls, "", NoDict, NoDict) :
        cls \in {"VcsHashUnsupported", "DirectoryUrlHashUnsupported", "HashUnpinned"} }
    \cup { NewHashError("HashMissing", "cccc", NoDict, NoDict) }
    \cup { NewHashError("HashMismatch", "", Sha256Allowed, Sha256Gots) }

(***************************************************************************)
(* list.sort(key=lambda e: e.order): a stable sort, here by insertion.     *)
(***************************************************************************)
\* An unstable insertion: x goes before the elements of equal key.
RECURSIVE InsertByKey_Unstable(_, _, _)
InsertByKey_Unstable(sorted, x, key) ==
    IF Len(sorted) = 0 THEN <<x>>
    ELSE IF key[x] <= key[sorted[Len(sorted)]]
         THEN InsertByKey_Unstable(SubSeq(sorted, 1, Len(sorted) - 1), x, key)
              \o <<sorted[Len(sorted)]>>
         ELSE sorted \o <<x>>

RECURSIVE InsertByKey(_, _, _)
InsertByKey(sorted, x, key) ==
    IF Len(sorted) = 0 THEN <<x>>
    ELSE IF key[x] < key[sorted[Len(sorted)]]
         THEN InsertByKey(SubSeq(sorted, 1, Len(sorted) - 1), x, key)
              \o <<sorted[Len(sorted)]>>
         ELSE sorted \o <<x>>

RECURSIVE SortByKey(_, _)
SortByKey(list, key) ==
    IF Len(list) = 0 THEN <<>>
    ELSE InsertByKey(SortByKey(SubSeq(list, 1, Len(list) - 1), key),
                     list[Len(list)], key)

OrderKey(heap) == [i \in 1..Len(heap) |-> order(heap[i].cls)]

(***************************************************************************)
(* The loop of HashErrors.__str__ over groupby(self.errors, class).        *)
(***************************************************************************)
\* A heading above every failure instead of one per group.
RECURSIVE GroupLines_HeadEach(_, _, _)
GroupLines_HeadEach(heap, sorted, i) ==
    IF i > Len(sorted) THEN <<>>
    ELSE <<head(heap[sorted[i]].cls), body(heap[sorted[i]])>>
         \o GroupLines_HeadEach(heap, sorted, i + 1)

RECURSIVE GroupLines(_, _, _)
GroupLines(heap, sorted, i) ==
    IF i > Len(sorted) THEN <<>>
    ELSE LET e == heap[sorted[i]]
             newGroup == i = 1 \/ heap[sorted[i - 1]].cls # e.cls
         IN  (IF newGroup THEN <<head(e.cls)>> ELSE <<>>)
             \o <<body(e)>>
             \o GroupLines(heap, sorted, i + 1)

\* Truthiness off by one.
Truth_OffByOne(list) == Len(list) > 1

\* bool(self.errors)
Truth(list) == Len(list) > 0

StrOfLines(lines) == IF Len(lines) > 0 THEN Join("\n", lines) ELSE ""

(***************************************************************************)
(* The operations on one report.                                           *)
(***************************************************************************)
AggInit ==
    /\ objs = <<>>
    /\ errors = <<>>
    /\ lastOp = "init"
    /\ strRet = ""
    /\ linesRet = <<>>
    /\ boolRet = FALSE
    /\ reorderedAt = 0

\* hash_errors.append(exc) for a newly raised exc
HashErrors_append ==
    /\ Len(objs) < MaxErrors
    /\ \E error \in ReportInputs :
        /\ objs' = Append(objs, error)
        /\ errors' = Append(errors, Len(objs) + 1)
    /\ lastOp' = "append"
    /\ strRet' = ""
    /\ linesRet' = <<>>
    /\ boolRet' = FALSE
    /\ UNCHANGED <<reorderedAt, heVars, diagVars>>

\* exc.req = req, on an instance the report may already hold
SetReq ==
    /\ \E i \in 1..Len(objs), r \in ReportRequirements :
        /\ objs[i].req # Some(r)
        /\ objs' = [objs EXCEPT ![i].req = Some(r)]
    /\ lastOp' = "setreq"
    /\ strRet' = ""
    /\ linesRet' = <<>>
    /\ boolRet' = FALSE
    /\ UNCHANGED <<errors, reorderedAt, heVars, diagVars>>

\* __str__ over sorted(self.errors): the stored list is left as it was.
HashErrors_str_SortedCopy ==
    LET sorted == SortByKey(errors, OrderKey(objs))
        lines == GroupLines(objs, sorted, 1)
    IN  /\ errors' = errors
        /\ linesRet' = lines
        /\ strRet' = StrOfLines(lines)
        /\ lastOp' = "str"
        /\ boolRet' = FALSE
        /\ reorderedAt' = reorderedAt
        /\ UNCHANGED <<objs, heVars, diagVars>>

HashErrors_str ==
    LET sorted == SortByKey(errors, OrderKey(objs))
        lines == GroupLines(objs, sorted, 1)
    IN  /\ errors' = sorted
        /\ linesRet' = lines
        /\ strRet' = StrOfLines(lines)
            /\ lastOp' = "str"
        /\ boolRet' = FALSE
        /\ reorderedAt' = IF reorderedAt = 0 /\ sorted # errors
                          THEN Len(errors) ELSE reorderedAt
        /\ UNCHANGED <<objs, heVars, diagVars>>

HashErrors_bool ==
    /\ boolRet' = Truth(errors)
    /\ lastOp' = "bool"
    /\ strRet' = ""
    /\ linesRet' = <<>>
    /\ UNCHANGED <<objs, errors, reorderedAt, heVars, diagVars>>

HeIdle == he = None /\ heRet = None
DiagIdle == dArgs = None /\ dSelf = None /\ dRaised = FALSE /\ dStr = None

Init == AggInit /\ HeIdle /\ DiagIdle

Next ==
    \/ HashErrors_append
    \/ SetReq
    \/ HashErrors_str
    \/ HashErrors_bool

Spec == Init /\ [][Next]_vars

(***************************************************************************)
(* One HashError instance on its own: construction, the late assignment of *)
(* req, body() and HashMismatch._hash_comparison().                        *)
(***************************************************************************)
MaxAlgos == 2       \* algorithms in the allowed dict of a HashMismatch

HashNames == {"md5", "sha256", "blake2b"}
Digests == <<"aaaa", "1111", "eeee">>
GotDigest(name) == "got-" \o name

\* the lists of 1..MaxDigests allowed digests
DigestLists == { SubSeq(Digests, 1, k) : k \in 1..MaxDigests }

\* the dicts of 1..MaxAlgos distinct algorithm names, in every insertion order
AllowedDicts ==
    UNION { { d \in [1..n -> [key : HashNames, value : DigestLists]] :
                \A i, j \in 1..n : i # j => d[i].key # d[j].key } :
            n \in 1..MaxAlgos }

GotsFor(allowed) ==
    [name \in { allowed[i].key : i \in 1..Len(allowed) } |-> GotDigest(name)]

HashErrorInputs ==
    { NewHashError(cls, "", NoDict, NoDict) :
        cls \in {"VcsHashUnsupported", "DirectoryUrlHashUnsupported", "HashUnpinned"} }
    \cup { NewHashError("HashMissing", h, NoDict, NoDict) : h \in {"cccc", "dddd"} }
    \cup { NewHashError("HashMismatch", "", a, GotsFor(a)) : a \in AllowedDicts }

HashError_init ==
    /\ he = None
    /\ \E e \in HashErrorInputs : he' = Some(e)
    /\ heRet' = None
    /\ UNCHANGED <<aggVars, diagVars>>

\* exc.req = req
HashError_setreq ==
    /\ he # None
    /\ \E r \in Requirements :
        /\ he[1].req # Some(r)
        /\ he' = Some([he[1] EXCEPT !.req = Some(r)])
    /\ heRet' = None
    /\ UNCHANGED <<aggVars, diagVars>>

HashError_body ==
    /\ he # None
    /\ heRet' = Some([fn |-> "body", val |-> body(he[1])])
    /\ UNCHANGED <<he, aggVars, diagVars>>

HashMismatch_hash_comparison ==
    /\ he # None
    /\ he[1].cls = "HashMismatch"
    /\ heRet' = Some([fn |-> "_hash_comparison", val |-> _hash_comparison(he[1])])
    /\ UNCHANGED <<he, aggVars, diagVars>>

AggIdle == AggInit

InitHash == AggIdle /\ HeIdle /\ DiagIdle

NextHash ==
    \/ HashError_init
    \/ HashError_setreq
    \/ HashError_body
    \/ HashMismatch_hash_comparison

SpecHash == InitHash /\ [][NextHash]_vars

(***************************************************************************)
(* DiagnosticPipError.                                                     *)
(***************************************************************************)
LowerCase ==
    {"a", "b", "c", "d", "e", "f", "g", "h", "i", "j", "k", "l", "m",
     "n", "o", "p", "q", "r", "s", "t", "u", "v", "w", "x", "y", "z"}

\* re.match of [a-z]+(-[a-z]+)* from position i of s, then the end of s:
\* inWord says the character before i is a letter of a word.
RECURSIVE KebabToEnd(_, _, _)
KebabToEnd(s, i, inWord) ==
    IF i > Len(s) THEN inWord
    ELSE LET c == SubSeq(s, i, i)
         IN  IF c \in LowerCase THEN KebabToEnd(s, i + 1, TRUE)
             ELSE IF c = "-" /\ inWord THEN KebabToEnd(s, i + 1, FALSE)
             ELSE FALSE

\* Python's $ (without re.MULTILINE) matches at the end of the string and
\* also just before a newline that is the last character of the string.
_is_kebab_case(s) ==
    \/ KebabToEnd(s, 1, FALSE)
    \/ /\ Len(s) > 0
       /\ SubSeq(s, Len(s), Len(s)) = "\n"
       /\ KebabToEnd(SubSeq(s, 1, Len(s) - 1), 1, FALSE)

\* Continuation lines indented by a fixed four spaces.
_prefix_with_indent_Four(prefix, s) ==
    prefix \o ReplaceNewlines(s, Spaces(4)) \o "\n"

_prefix_with_indent(prefix, s) ==
    LET indent == Spaces(Len(prefix))
        message == ReplaceNewlines(s, indent)
    IN  prefix \o message \o "\n"

_string_parts(self) ==
    <<self.message \o "\n">>
    \o (IF self.context # None THEN <<"\n" \o self.context[1] \o "\n">> ELSE <<>>)
    \o (IF self.attention_stmt # None \/ self.hint_stmt # None
        THEN <<"\n">> ELSE <<>>)
    \o (IF self.attention_stmt # None
        THEN <<_prefix_with_indent("Note: ", self.attention_stmt[1])>> ELSE <<>>)
    \o (IF self.hint_stmt # None
        THEN <<_prefix_with_indent("Hint: ", self.hint_stmt[1])>> ELSE <<>>)

\* __str__ left to Exception: the only argument, "<reference>: <message>".
DiagnosticPipError_str_Inherited(self) == self.args[1]

DiagnosticPipError_str(self) == Join("", _string_parts(self))

\* The instance __init__ leaves behind, given the validated reference.
DiagnosticPipError_new(args, reference) ==
    [args |-> <<reference \o ": " \o args.message>>,
     kind |-> args.kind,
     message |-> args.message,
     context |-> args.context,
     reference |-> reference,
     attention_stmt |-> args.attention_stmt,
     hint_stmt |-> args.hint_stmt]

Messages == {"Can not process pkg", "two\nlines"}
Contexts == {None, Some("This package has an invalid pyproject.toml file.\nThe table is missing.")}
Statements == {None, Some("See PEP 518."), Some("one\ntwo\n\nfour"), Some("\nx\n")}
References ==
    {None, Some("missing-pyproject-build-system-requires"), Some("a"),
     Some("ab-c"), Some("Missing_Thing"), Some("-leading"), Some("trailing-"),
     Some("double--hyphen"), Some(""), Some("a1"), Some("a b"), Some("ab-c\n"),
     Some("a\n\n"), Some("\na"), Some("a\nb"), Some("a-\n"), Some("\n")}
\* the class attribute `reference` of the subclass, if it sets one
ClassReferences == {None, Some("missing-pyproject-build-system-requires"), Some("Not_Kebab")}

DiagInputs ==
    [message : Messages, context : Contexts, hint_stmt : Statements,
     attention_stmt : Statements, reference : References,
     class_reference : ClassReferences, kind : {"error", "warning"}]

\* the reference __init__ goes on with: the argument, else the class attribute
EffectiveReference(args) ==
    IF args.reference # None THEN args.reference ELSE args.class_reference

DiagnosticPipError_init ==
    /\ dArgs # None
    /\ dSelf = None
    /\ ~dRaised
    /\ LET args == dArgs[1]
           reference == EffectiveReference(args)
       IN  IF reference = None
           THEN \* assert hasattr(self, "reference")
                dRaised' = TRUE /\ dSelf' = None
           ELSE IF ~_is_kebab_case(reference[1])
           THEN \* assert _is_kebab_case(reference)
                dRaised' = TRUE /\ dSelf' = None
           ELSE dRaised' = FALSE
                /\ dSelf' = Some(DiagnosticPipError_new(args, reference[1]))
    /\ UNCHANGED <<dArgs, dStr, aggVars, heVars>>

DiagnosticPipError_call_str ==
    /\ dSelf # None
    /\ dStr = None
    /\ dStr' = Some(DiagnosticPipError_str(dSelf[1]))
    /\ UNCHANGED <<dArgs, dSelf, dRaised, aggVars, heVars>>

InitDiag ==
    /\ AggIdle
    /\ HeIdle
    /\ dArgs \in { Some(a) : a \in DiagInputs }
    /\ dSelf = None
    /\ dRaised = FALSE
    /\ dStr = None

NextDiag ==
    \/ DiagnosticPipError_init
    \/ DiagnosticPipError_call_str

SpecDiag == InitDiag /\ [][NextDiag]_vars

(***************************************************************************)
(* Properties of the report (specification Spec).                          *)
(***************************************************************************)
\* The failures in the order they were appended: objs grows by one per append.
Appended == [i \in 1..Len(objs) |-> i]

Priority(x) == order(objs[x].cls)

\* The place of list[i] after a stable sort of list by priority ascending.
Rank(list, i) ==
    Cardinality({ j \in 1..Len(list) :
                    \/ Priority(list[j]) < Priority(list[i])
                    \/ Priority(list[j]) = Priority(list[i]) /\ j <= i })

IsStableSortOf(s, list) ==
    /\ Len(s) = Len(list)
    /\ \A i \in 1..Len(list) : s[Rank(list, i)] = list[i]

IsBodyLine(line) == Len(line) >= 4 /\ SubSeq(line, 1, 4) = "    "

StartsWith(s, prefix) ==
    Len(s) >= Len(prefix) /\ SubSeq(s, 1, Len(prefix)) = prefix

\* C1 as stated: HashErrors.__str__ leaves the stored list self.errors as it
\* was, element for element and in the same order.
C1_StrLeavesErrorsUnchanged ==
    [][lastOp' = "str" => errors' = errors]_vars

\* C1, amended: HashErrors.__str__ adds and drops no element of self.errors
\* but sorts the stored list in place, stably, by priority ascending.
C1_StrSortsErrorsInPlace ==
    [][lastOp' = "str" => IsStableSortOf(errors', errors)]_vars

\* a __str__ call has changed the stored order
C1_Witness ==
    /\ lastOp = "str"
    /\ reorderedAt > 0
    /\ errors # Appended

\* C2: the report lists the body of every appended failure exactly once, in
\* the order of a stable sort of the appended failures by priority ascending.
C2_BodiesInStablePriorityOrder ==
    lastOp = "str" =>
        LET bodies == SelectSeq(linesRet, IsBodyLine)
        IN  /\ Len(bodies) = Len(objs)
            /\ \A i \in 1..Len(objs) : bodies[Rank(Appended, i)] = body(objs[i])
            /\ strRet = Join("\n", linesRet)

\* two failures of one priority with different bodies, and a failure of lower
\* priority appended between them
C2_Witness ==
    /\ lastOp = "str"
    /\ \E i, j, k \in 1..Len(objs) :
        /\ i < j /\ j < k
        /\ Priority(i) = Priority(k)
        /\ Priority(j) < Priority(i)
        /\ body(objs[i]) # body(objs[k])

HeadingCount(cls) ==
    Cardinality({ n \in 1..Len(linesRet) : linesRet[n] = head(cls) })

Members(cls) == { i \in 1..Len(objs) : objs[i].cls = cls }

\* C3: the heading of a class is in the report once if a failure of the class
\* was appended and not at all otherwise, and it is followed by the bodies of
\* all the failures of the class, with the next heading or the end after them.
C3_OneSectionPerClass ==
    lastOp = "str" =>
        /\ \A cls \in HashErrorClasses :
            HeadingCount(cls) = IF Members(cls) # {} THEN 1 ELSE 0
        /\ \A n \in 1..Len(linesRet), cls \in HashErrorClasses :
            linesRet[n] = head(cls) =>
                LET m == Cardinality(Members(cls))
                IN  /\ n + m <= Len(linesRet)
                    /\ \A d \in 1..m :
                        \E i \in Members(cls) : linesRet[n + d] = body(objs[i])
                    /\ n + m < Len(linesRet) => ~IsBodyLine(linesRet[n + m + 1])
        /\ Len(linesRet) > 0 => ~IsBodyLine(linesRet[1])

\* two failures of one class with a failure of another class appended between
C3_Witness ==
    /\ lastOp = "str"
    /\ \E i, j, k \in 1..Len(objs) :
        /\ i < j /\ j < k
        /\ objs[i].cls = objs[k].cls
        /\ objs[j].cls # objs[i].cls

\* C4: the report is falsy exactly when nothing was ever appended, and
\* exactly then __str__ returns ""; otherwise the text starts with a heading.
C4_FalsyIffNothingAppended ==
    /\ lastOp = "bool" => (boolRet <=> Len(objs) > 0)
    /\ lastOp = "str" =>
        /\ strRet = "" <=> Len(objs) = 0
        /\ Len(objs) > 0 =>
            \E cls \in HashErrorClasses : StartsWith(strRet, head(cls))

\* __bool__ on a report of one failure
C4_Witness ==
    /\ lastOp = "bool"
    /\ boolRet
    /\ Len(objs) = 1

\* what __str__ returns on a new report to which the same failures were
\* appended in the same order
FreshStr ==
    StrOfLines(GroupLines(objs, SortByKey(Appended, OrderKey(objs)), 1))

\* C10: whatever __str__ calls came between the appends, __str__ returns the
\* text a new report with the same appends returns, and two __str__ calls
\* in a row return the same text.
C10_StrDependsOnAppendsOnly ==
    /\ [](lastOp = "str" => strRet = FreshStr)
    /\ [][lastOp = "str" /\ lastOp' = "str" => strRet' = strRet]_vars

\* an earlier __str__ call changed the stored order, failures were appended
\* after it, and __str__ was called again
C10_Witness ==
    /\ lastOp = "str"
    /\ reorderedAt > 0
    /\ reorderedAt < Len(errors)

(***************************************************************************)
(* Properties of a single HashError (specification SpecHash).              *)
(***************************************************************************)
\* the index of the first "\n" of s at or after i, 0 if there is none
RECURSIVE FirstNewline(_, _)
FirstNewline(s, i) ==
    IF i > Len(s) THEN 0
    ELSE IF SubSeq(s, i, i) = "\n" THEN i
    ELSE FirstNewline(s, i + 1)

\* s.split("\n")
RECURSIVE SplitLines(_)
SplitLines(s) ==
    LET k == FirstNewline(s, 1)
    IN  IF k = 0 THEN <<s>>
        ELSE <<SubSeq(s, 1, k - 1)>> \o SplitLines(SubSeq(s, k + 1, Len(s)))

EndsWith(s, suffix) ==
    Len(s) >= Len(suffix) /\ SubSeq(s, Len(s) - Len(suffix) + 1, Len(s)) = suffix

\* An "or" line for digest d under algorithm name: the token "or" ends in the
\* column where name ends on the line "        Expected <name> <digest>",
\* which is column 17 + Len(name); a space and the digest follow it.
IsAlignedOrLine(line, name, d) ==
    /\ Len(line) = 18 + Len(name) + Len(d)
    /\ SubSeq(line, 16 + Len(name), 18 + Len(name)) = "or "
    /\ EndsWith(line, d)

\* lines is, block after block in the order of allowed: the Expected line, the
\* aligned "or" lines, the Got line and a blank line.
RECURSIVE IsComparisonOf(_, _, _)
IsComparisonOf(lines, allowed, gots) ==
    IF Len(allowed) = 0 THEN Len(lines) = 0
    ELSE LET name == allowed[1].key
             ds == allowed[1].value
             k == Len(ds)
         IN  /\ Len(lines) >= k + 2
             /\ lines[1] = "        Expected " \o name \o " " \o ds[1]
             /\ \A i \in 2..k : IsAlignedOrLine(lines[i], name, ds[i])
             /\ lines[k + 1] = "             Got        " \o gots[name]
             /\ lines[k + 2] = ""
             /\ IsComparisonOf(SubSeq(lines, k + 3, Len(lines)), Tail(allowed), gots)

\* C8: the hash comparison is, per algorithm of allowed in insertion order,
\* an Expected line, an "or" line per further digest with "or" ending in the
\* column where the algorithm name ends, one Got line and a blank line, for
\* algorithm names of any length.
C8_ComparisonAlignedForAnyName ==
    (heRet # None /\ heRet[1].fn = "_hash_comparison") =>
        IsComparisonOf(SplitLines(heRet[1].val), he[1].allowed, he[1].gots)

\* the identity a body shows, by the fallback chain
ShownIdentity(e) ==
    IF e.cls = "HashMissing"
    THEN IF e.req = None THEN "unknown package"
         ELSE IF e.req[1].original_link # None THEN e.req[1].original_link[1]
         ELSE IF e.req[1].req # None THEN e.req[1].req[1]
         ELSE "unknown package"
    ELSE IF e.req = None THEN "unknown package" ELSE e.req[1].str

\* C9: a body shows str(req), or "unknown package" without a req; the body
\* of a HashMissing shows the original link, else req.req, else "unknown
\* package", then " --hash=<FAVORITE_HASH>:<gotten_hash>"; the req read is the
\* one attached when body() runs.
C9_BodyShowsIdentityByFallback ==
    (heRet # None /\ heRet[1].fn = "body") =>
        LET e == he[1]
            shown == heRet[1].val
        IN  /\ StartsWith(shown, "    " \o ShownIdentity(e))
            /\ e.cls = "HashMissing" =>
                shown = "    " \o ShownIdentity(e) \o " --hash=" \o FAVORITE_HASH
                        \o ":" \o e.gotten_hash
            /\ e.cls = "HashMismatch" =>
                StartsWith(shown, "    " \o ShownIdentity(e) \o ":\n")
            /\ e.cls \notin {"HashMissing", "HashMismatch"} =>
                shown = "    " \o ShownIdentity(e)

\* the body of a HashMissing whose req, attached after construction, has both
\* an original link and a req.req
C9_Witness ==
    /\ heRet # None
    /\ heRet[1].fn = "body"
    /\ he[1].cls = "HashMissing"
    /\ he[1].req # None
    /\ he[1].req[1].original_link # None
    /\ he[1].req[1].req # None

(***************************************************************************)
(* Properties of DiagnosticPipError (specification SpecDiag).              *)
(***************************************************************************)
\* s with every newline of it followed by n spaces
IndentedBy(s, n) == Join("\n" \o Spaces(n), SplitLines(s))

\* The renderer output over (message, context, hint_stmt, attention_stmt).
Rendered(message, context, hint_stmt, attention_stmt) ==
    message \o "\n"
    \o (IF context # None THEN "\n" \o context[1] \o "\n" ELSE "")
    \o (IF attention_stmt # None \/ hint_stmt # None THEN "\n" ELSE "")
    \o (IF attention_stmt # None
        THEN "Note: " \o IndentedBy(attention_stmt[1], 6) \o "\n" ELSE "")
    \o (IF hint_stmt # None
        THEN "Hint: " \o IndentedBy(hint_stmt[1], 6) \o "\n" ELSE "")

RenderedArgs ==
    Rendered(dArgs[1].message, dArgs[1].context, dArgs[1].hint_stmt,
             dArgs[1].attention_stmt)

\* C5 as stated: str() of an instance is "<reference>: " and then the
\* renderer output.
C5_StrIsReferenceThenRendered ==
    dStr # None =>
        dStr[1] = EffectiveReference(dArgs[1])[1] \o ": " \o RenderedArgs

\* C5, amended: str() of an instance is the renderer output alone; the
\* reference prefixes only the message handed to Exception as its argument,
\* "<reference>: <message>".
C5_StrIsRenderedAlone ==
    /\ dStr # None => dStr[1] = RenderedArgs
    /\ dSelf # None =>
        dSelf[1].args
            = <<EffectiveReference(dArgs[1])[1] \o ": " \o dArgs[1].message>>

\* str() of an instance whose reference is the class attribute
C5_Witness ==
    /\ dStr # None
    /\ dArgs[1].reference = None
    /\ dArgs[1].context # None

\* C6: the output is message and a newline; with a context, a blank line, the
\* context and a newline; with a note or a hint, one blank line; with a note,
\* "Note: " and the note with its newlines followed by 6 spaces, and a newline;
\* with a hint, the same under "Hint: "; nothing else.
C6_RenderedLayout ==
    dStr # None =>
        /\ dStr[1] = RenderedArgs
        /\ (dArgs[1].context = None /\ dArgs[1].hint_stmt = None
            /\ dArgs[1].attention_stmt = None)
            => dStr[1] = dArgs[1].message \o "\n"

\* all four fields set, the note and the hint of several lines
C6_Witness ==
    /\ dStr # None
    /\ dArgs[1].context # None
    /\ dArgs[1].attention_stmt # None
    /\ dArgs[1].hint_stmt # None
    /\ FirstNewline(dArgs[1].attention_stmt[1], 1) > 0
    /\ FirstNewline(dArgs[1].hint_stmt[1], 1) > 0

KebabChars == LowerCase \cup {"-"}

\* one or more non-empty words of a-z separated by single hyphens
IsKebabWords(s) ==
    /\ Len(s) > 0
    /\ \A i \in 1..Len(s) : SubSeq(s, i, i) \in KebabChars
    /\ SubSeq(s, 1, 1) # "-"
    /\ SubSeq(s, Len(s), Len(s)) # "-"
    /\ \A i \in 1..(Len(s) - 1) : SubSeq(s, i, i + 1) # "--"

\* C7: construction succeeds exactly when there is an effective reference
\* and it is one or more words of a-z separated by single hyphens.
C7_ConstructsIffKebabReference ==
    (dSelf # None \/ dRaised) =>
        (dSelf # None <=>
            /\ EffectiveReference(dArgs[1]) # None
            /\ IsKebabWords(EffectiveReference(dArgs[1])[1]))

====
